---- MODULE Spec2Model ----
(***************************************************************************)
(* btc_eth_bark_notifier.py: a polling driver (main) that quantises the    *)
(* BTC price, the ETH price and their ratio into slots and pushes a        *)
(* notification when a slot changes, and a PriceTracker that keeps the     *)
(* price history and the last-alerted registry in SQLite and reports new   *)
(* 24h/72h/144h lows and highs of the ratio.                               *)
(*                                                                         *)
(* Numbers.  Prices are integers.  The ratio and RATIO_STEP are Python     *)
(* floats; they are modelled as exact fractions <<numerator, denominator>> *)
(* in lowest terms with a positive denominator, so that == on floats is    *)
(* equality of the pairs and <= is RLe.  Time is in whole hours.           *)
(***************************************************************************)
EXTENDS Integers, Sequences, FiniteSets, TLC

VARIABLES
    pc,                 \* "start": main() not yet run, "loop": inside while True, "exited": process ended,
                        \* "killed": process stopped in the middle of a cycle
    BTC_STEP,           \* module constants read from the environment at import
    ETH_STEP,
    RATIO_STEP,
    now,                \* datetime.now(), in hours
    btc_price,          \* main()'s locals: the last quote fetched
    eth_price,
    btc_slot,           \* main()'s locals: the slots last recorded
    eth_slot,
    ratio_slot,
    last_alerted,       \* PriceTracker.last_alerted (in memory)
    price_history,      \* table price_history of the SQLite file
    last_alerted_table, \* table last_alerted of the SQLite file
    crossings,          \* the slot-crossing bark_push calls of the last cycle
    extreme_alerts,     \* what check_extremes returned in the last cycle (each is pushed)
    log,                \* what the last step printed: "ready", "ok" or the [ERROR] it caught
    bark_log,           \* what bark_push printed in the last cycle: "none" when it was not called
    last_returned       \* for each key, the value of the last alert check_extremes returned

vars == << pc, BTC_STEP, ETH_STEP, RATIO_STEP, now, btc_price, eth_price, btc_slot, eth_slot, ratio_slot,
           last_alerted, price_history, last_alerted_table, crossings,
           extreme_alerts, log, bark_log, last_returned >>

----------------------------------------------------------------------------
(* Bounds of the model *)

MaxTime == 192          \* the clock stops advancing here
MaxSamples == 2         \* rows the history table may hold
MaxTimeLong == 288      \* where the clock stops in the longer watch

\* quotes <<bitcoin usd, ethereum usd>> the price source may return
Quotes == { <<0 - 1, 4>>, <<5, 2>>, <<6, 2>>, <<6, 0>> }
Dts == {0, 48}                  \* hours that may pass between two clock readings

\* values the environment may give BTC_STEP, ETH_STEP and RATIO_STEP
Configs == { <<4, 4, <<2, 1>> >>, <<0, 4, <<2, 1>> >>, <<4, 0, <<2, 1>> >>,
             <<4, 4, <<0, 1>> >> }

\* values below zero the environment may give them
NegativeConfigs == { <<0 - 4, 4, <<2, 1>> >>, <<4, 0 - 4, <<2, 1>> >>,
                     <<4, 4, <<0 - 2, 1>> >> }

----------------------------------------------------------------------------
(* Exact fractions standing for Python floats *)

Abs(n) == IF n < 0 THEN 0 - n ELSE n

RECURSIVE GCD(_, _)
GCD(a, b) == IF b = 0 THEN a ELSE GCD(b, a % b)

\* n / d as a fraction in lowest terms, d /= 0
RNorm(n, d) ==
    LET g == GCD(Abs(n), Abs(d))
        s == IF d < 0 THEN 0 - 1 ELSE 1
    IN  << (s * n) \div g, (s * d) \div g >>

RLe(a, b) == a[1] * b[2] <= b[1] * a[2]

RMin(S) == CHOOSE x \in S : \A y \in S : RLe(x, y)
RMax(S) == CHOOSE x \in S : \A y \in S : RLe(y, x)

\* int(n / d): truncation towards zero
Trunc(n, d) ==
    LET q == Abs(n) \div Abs(d)
    IN  IF (n < 0) = (d < 0) THEN q ELSE 0 - q

\* n // d: Python floor division
FloorDiv(n, d) == IF d > 0 THEN n \div d ELSE (0 - n) \div (0 - d)

None == <<0, 0>>        \* Python None where a float may stand
Unbound == "unbound"    \* a local of main() that does not exist yet

----------------------------------------------------------------------------
(* PriceTracker *)

Keys == {"24h_low", "24h_high", "72h_low", "72h_high", "144h_low", "144h_high"}

\* __init__: the registry before _load_last_alerted
EmptyRegistry == [k \in Keys |-> None]

\* the periods of check_extremes, longest first
Periods ==
    << [name |-> "144h", hours |-> 144, low_key |-> "144h_low", high_key |-> "144h_high"],
       [name |-> "72h",  hours |-> 72,  low_key |-> "72h_low",  high_key |-> "72h_high"],
       [name |-> "24h",  hours |-> 24,  low_key |-> "24h_low",  high_key |-> "24h_high"] >>

RetentionHours == 145

\* longest_low / longest_high = None
NoExtreme == [name |-> "none", hours |-> 0, low_key |-> "none", high_key |-> "none"]

\* a tracker that starts from the empty registry and reads no row
LoadNothing(table) == [k \in Keys |-> None]

\* _load_last_alerted: every row of the table whose key the registry knows
LoadLastAlerted(table) == [k \in Keys |-> table[k]]

\* _save_last_alerted: INSERT OR REPLACE of one row
SaveLastAlerted(table, key, value) == [table EXCEPT ![key] = value]

\* an insert without the DELETE of the old rows
AddPricesKeepsAll(history, t, ratio) == Append(history, [timestamp |-> t, ratio |-> ratio])

\* add_prices: insert the row, delete the rows older than 145 hours, commit.
\* The columns btc_price and eth_price are written and never read: a row is
\* its timestamp and its ratio.
AddPrices(history, t, ratio) ==
    LET inserted == Append(history, [timestamp |-> t, ratio |-> ratio])
        Kept(row) == ~(row.timestamp < t - RetentionHours)
    IN  SelectSeq(inserted, Kept)

\* _get_oldest_timestamp: SELECT MIN(timestamp), on a non-empty table
OldestTimestamp(history) ==
    LET ts == {history[i].timestamp : i \in 1..Len(history)}
    IN  CHOOSE t \in ts : \A u \in ts : t <= u

\* _get_period_ratios: the ratios of the rows with timestamp >= now - hours
GetPeriodRatios(history, t, hours) ==
    {history[i].ratio : i \in {j \in 1..Len(history) : history[j].timestamp >= t - hours}}

\* a check that skips no period
EnoughDataAlways(data_span_hours, hours) == TRUE

\* "if data_span_hours < hours: continue"
EnoughData(data_span_hours, hours) == ~(data_span_hours < hours)

\* "current_ratio <= min_ratio" and "current_ratio >= max_ratio"
\* a low measured against the maximum of the window
IsLowAgainstMax(current_ratio, period_ratios) == RLe(current_ratio, RMax(period_ratios))
IsLow(current_ratio, period_ratios) == RLe(current_ratio, RMin(period_ratios))
\* a high only when strictly above the maximum of the window
IsHighStrict(current_ratio, period_ratios) == ~RLe(current_ratio, RMax(period_ratios))
IsHigh(current_ratio, period_ratios) == RLe(RMax(period_ratios), current_ratio)

\* a guard that looks at the entries of every key
NotYetAlertedAnyKey(registry, key, current_ratio) ==
    \A k \in Keys : registry[k] # current_ratio

\* "self.last_alerted[key] != current_ratio"
NotYetAlerted(registry, key, current_ratio) == registry[key] # current_ratio

\* the for loop of check_extremes from its i-th period on
RECURSIVE CheckLoop(_, _, _, _, _, _, _)
CheckLoop(i, longest_low, longest_high, history, registry, t, current_ratio) ==
    IF i > Len(Periods) THEN [low |-> longest_low, high |-> longest_high]
    ELSE
      LET p == Periods[i]
          data_span_hours == t - OldestTimestamp(history)
          period_ratios == GetPeriodRatios(history, t, p.hours)
      IN  IF ~EnoughData(data_span_hours, p.hours) \/ period_ratios = {}
          THEN CheckLoop(i + 1, longest_low, longest_high, history, registry, t, current_ratio)
          ELSE
            LET low == IF /\ longest_low = NoExtreme
                          /\ IsLow(current_ratio, period_ratios)
                          /\ NotYetAlerted(registry, p.low_key, current_ratio)
                       THEN p ELSE longest_low
                high == IF /\ longest_high = NoExtreme
                           /\ IsHigh(current_ratio, period_ratios)
                           /\ NotYetAlerted(registry, p.high_key, current_ratio)
                        THEN p ELSE longest_high
            IN  CheckLoop(i + 1, low, high, history, registry, t, current_ratio)

\* the alert tuples appended to alerts
LowAlert(p, ratio_val) ==
    [key |-> p.low_key, period |-> p.name, hours |-> p.hours, kind |-> "low", value |-> ratio_val]
HighAlert(p, ratio_val) ==
    [key |-> p.high_key, period |-> p.name, hours |-> p.hours, kind |-> "high", value |-> ratio_val]

----------------------------------------------------------------------------
(* main: slots and crossings *)

\* int(price // STEP)
PriceSlot(price, step) == FloorDiv(price, step)

\* btc_price / eth_price, eth_price /= 0
Ratio(btc, eth) == RNorm(btc, eth)

\* int(ratio / RATIO_STEP)
RatioSlot(ratio, step) == Trunc(ratio[1] * step[2], ratio[2] * step[1])

Direction(old_slot, new_slot) == IF new_slot > old_slot THEN "up" ELSE "down"

\* a threshold that is the lower edge of the new slot in both directions
FinalThresholdLowerEdge(old_slot, new_slot, step) == new_slot * step

\* final_threshold of the BTC and ETH blocks
FinalThreshold(old_slot, new_slot, step) ==
    IF new_slot > old_slot THEN new_slot * step ELSE (new_slot + 1) * step

\* final_ratio of the ratio block
FinalRatio(old_slot, new_slot, step) ==
    IF new_slot > old_slot THEN RNorm(new_slot * step[1], step[2])
    ELSE RNorm((new_slot + 1) * step[1], step[2])

\* the bark_push calls of the three "if new_slot != slot" blocks, in order
\* one push for every threshold between the two slots
BtcCrossingEachThreshold(old_slot, new_btc_slot) ==
    [i \in 1..Abs(new_btc_slot - old_slot) |->
        [series |-> "BTC", direction |-> Direction(old_slot, new_btc_slot),
         threshold |-> IF new_btc_slot > old_slot
                       THEN (old_slot + i) * BTC_STEP
                       ELSE (old_slot - i + 1) * BTC_STEP]]
BtcCrossing(old_slot, new_btc_slot) ==
    IF new_btc_slot # old_slot
    THEN << [series |-> "BTC", direction |-> Direction(old_slot, new_btc_slot),
             threshold |-> FinalThreshold(old_slot, new_btc_slot, BTC_STEP)] >>
    ELSE << >>
\* a push without the comparison of the slots
EthCrossingAlways(old_slot, new_eth_slot) ==
    << [series |-> "ETH", direction |-> Direction(old_slot, new_eth_slot),
        threshold |-> FinalThreshold(old_slot, new_eth_slot, ETH_STEP)] >>
EthCrossing(old_slot, new_eth_slot) ==
    IF new_eth_slot # old_slot
    THEN << [series |-> "ETH", direction |-> Direction(old_slot, new_eth_slot),
             threshold |-> FinalThreshold(old_slot, new_eth_slot, ETH_STEP)] >>
    ELSE << >>
RatioCrossing(old_slot, new_ratio_slot) ==
    IF new_ratio_slot # old_slot
    THEN << [series |-> "BTC/ETH", direction |-> Direction(old_slot, new_ratio_slot),
             threshold |-> FinalRatio(old_slot, new_ratio_slot, RATIO_STEP)] >>
    ELSE << >>

\* the values of the alerts returned so far, after a call that returned alerts
Returned(returned, alerts) ==
    [k \in Keys |->
        IF \E j \in 1..Len(alerts) : alerts[j].key = k
        THEN (CHOOSE a \in {alerts[j] : j \in 1..Len(alerts)} : a.key = k).value
        ELSE returned[k]]

\* bark_push: prints [BARK SUCCESS] on status 200, [BARK ERROR] on another
\* status or a requests.RequestException; it returns in every case
BarkPush(delivered) == IF delivered THEN "success" ELSE "error"

\* what a push may meet: a service that answers 200, or one that does not
PushAlways == {TRUE}
PushOutcomes == BOOLEAN

\* what the pushes of a cycle printed
BarkLog(pushed, alerts, delivered) ==
    IF pushed = << >> /\ alerts = << >> THEN "none" ELSE BarkPush(delivered)

\* a slot that is recorded only when the push was delivered
SlotKeptOnFailure(old_slot, new_slot, delivered) ==
    IF delivered THEN new_slot ELSE old_slot

\* "btc_slot = new_btc_slot" after bark_push, whatever bark_push met
SlotAfterPush(old_slot, new_slot, delivered) == new_slot

\* a handler that lets the exception end the process
AfterExceptionExits == "exited"

\* where "except Exception" leaves the process: at time.sleep, still in the loop
AfterException == "loop"

----------------------------------------------------------------------------
(* check_extremes, with the place where the store fails *)

\* where an sqlite3 call of the cycle may raise
StorageFaults == {"add_prices", "query", "save_low", "save_high"}

\* check_extremes(current_ratio) on the given history, registry and table.
\* raised: an sqlite3 error left the call; alerts: the list it returned;
\* reached: the call came to the statement the fault is in.
CheckExtremes(history, registry, table, t, current_ratio, fault) ==
    IF fault = "query"
    THEN [registry |-> registry, table |-> table, alerts |-> << >>,
          raised |-> TRUE, reached |-> TRUE]
    ELSE IF history = << >>
    THEN [registry |-> registry, table |-> table, alerts |-> << >>,
          raised |-> FALSE, reached |-> fault = "none"]
    ELSE
      LET found == CheckLoop(1, NoExtreme, NoExtreme, history, registry, t, current_ratio)
          has_low == found.low # NoExtreme
          has_high == found.high # NoExtreme
          \* "if longest_low:" the registry is set, then saved
          registry1 == IF has_low THEN [registry EXCEPT ![found.low.low_key] = current_ratio]
                       ELSE registry
          table1 == IF has_low
                    THEN SaveLastAlerted(table, found.low.low_key, current_ratio)
                    ELSE table
          alerts1 == IF has_low THEN << LowAlert(found.low, current_ratio) >> ELSE << >>
          \* "if longest_high:" likewise
          registry2 == IF has_high THEN [registry1 EXCEPT ![found.high.high_key] = current_ratio]
                       ELSE registry1
          table2 == IF has_high
                    THEN SaveLastAlerted(table1, found.high.high_key, current_ratio)
                    ELSE table1
          alerts2 == IF has_high THEN Append(alerts1, HighAlert(found.high, current_ratio))
                     ELSE alerts1
      IN  IF fault = "save_low"
          THEN [registry |-> registry1, table |-> table, alerts |-> << >>,
                raised |-> TRUE, reached |-> has_low]
          ELSE IF fault = "save_high"
          THEN [registry |-> registry2, table |-> table1, alerts |-> << >>,
                raised |-> TRUE, reached |-> has_high]
          ELSE [registry |-> registry2, table |-> table2, alerts |-> alerts2,
                raised |-> FALSE, reached |-> TRUE]

----------------------------------------------------------------------------
(* The process *)

\* the process not yet started, on an empty store
Unstarted ==
    /\ pc = "start"
    /\ now = 0
    /\ btc_price = Unbound
    /\ eth_price = Unbound
    /\ btc_slot = Unbound
    /\ eth_slot = Unbound
    /\ ratio_slot = Unbound
    /\ last_alerted = EmptyRegistry
    /\ price_history = << >>
    /\ last_alerted_table = [k \in Keys |-> None]
    /\ crossings = << >>
    /\ extreme_alerts = << >>
    /\ log = "start"
    /\ bark_log = "none"
    /\ last_returned = [k \in Keys |-> None]

Init ==
    /\ \E c \in Configs : BTC_STEP = c[1] /\ ETH_STEP = c[2] /\ RATIO_STEP = c[3]
    /\ Unstarted

\* the same, with a step below zero in the environment
InitNegative ==
    /\ \E c \in NegativeConfigs : BTC_STEP = c[1] /\ ETH_STEP = c[2] /\ RATIO_STEP = c[3]
    /\ Unstarted

\* main() up to "while True": any exception here ends the process.
\* fault: "fetch" (fetch_prices raises), "query" (PriceTracker() raises) or "none"
Startup(btc, eth, fault) ==
    /\ pc = "start"
    /\ UNCHANGED << BTC_STEP, ETH_STEP, RATIO_STEP, now, price_history,
                    last_alerted_table, crossings, extreme_alerts, bark_log,
                    last_returned >>
    /\ IF fault = "fetch"
       THEN /\ pc' = "exited"
            /\ log' = "fetch_error"
            /\ UNCHANGED << btc_price, eth_price, btc_slot, eth_slot, ratio_slot,
                            last_alerted >>
       ELSE IF BTC_STEP = 0 \/ ETH_STEP = 0 \/ eth = 0 \/ RATIO_STEP[1] = 0
       THEN /\ pc' = "exited"
            /\ log' = "zero_division"
            /\ btc_price' = btc
            /\ eth_price' = eth
            /\ UNCHANGED << btc_slot, eth_slot, ratio_slot, last_alerted >>
       ELSE /\ btc_price' = btc
            /\ eth_price' = eth
            /\ btc_slot' = PriceSlot(btc, BTC_STEP)
            /\ eth_slot' = PriceSlot(eth, ETH_STEP)
            /\ ratio_slot' = RatioSlot(Ratio(btc, eth), RATIO_STEP)
            /\ IF fault = "query"
               THEN /\ pc' = "exited"
                    /\ log' = "storage_error"
                    /\ UNCHANGED last_alerted
               ELSE /\ pc' = "loop"
                    /\ log' = "ready"
                    /\ last_alerted' = LoadLastAlerted(last_alerted_table)

\* a failed fetch that forgets the slots: the next quote is compared with 0
FetchFailsForgetsSlots ==
    /\ log' = "fetch_error"
    /\ pc' = AfterException
    /\ crossings' = << >>
    /\ extreme_alerts' = << >>
    /\ bark_log' = "none"
    /\ UNCHANGED last_returned
    /\ btc_slot' = 0
    /\ eth_slot' = 0
    /\ ratio_slot' = 0
    /\ UNCHANGED << btc_price, eth_price, last_alerted, price_history,
                    last_alerted_table >>

\* the body of "while True" when fetch_prices raises, up to time.sleep
FetchFails ==
    /\ log' = "fetch_error"
    /\ pc' = AfterException
    /\ crossings' = << >>
    /\ extreme_alerts' = << >>
    /\ bark_log' = "none"
    /\ UNCHANGED last_returned
    /\ UNCHANGED << btc_price, eth_price, btc_slot, eth_slot, ratio_slot,
                    last_alerted, price_history, last_alerted_table >>

\* ... when btc_price / eth_price raises ZeroDivisionError
DivisionFails(btc, eth) ==
    /\ log' = "zero_division"
    /\ pc' = AfterException
    /\ btc_price' = btc
    /\ eth_price' = eth
    /\ crossings' = << >>
    /\ extreme_alerts' = << >>
    /\ bark_log' = "none"
    /\ UNCHANGED last_returned
    /\ UNCHANGED << btc_slot, eth_slot, ratio_slot, last_alerted,
                    price_history, last_alerted_table >>

\* ... when the quote is usable: crossings, add_prices, check_extremes, pushes
Tracks(btc, eth, fault, outcomes) ==
    LET new_btc_slot == PriceSlot(btc, BTC_STEP)
        new_eth_slot == PriceSlot(eth, ETH_STEP)
        ratio == Ratio(btc, eth)
        new_ratio_slot == RatioSlot(ratio, RATIO_STEP)
    IN  /\ btc_price' = btc
        /\ eth_price' = eth
        /\ crossings' = BtcCrossing(btc_slot, new_btc_slot)
                          \o EthCrossing(eth_slot, new_eth_slot)
                          \o RatioCrossing(ratio_slot, new_ratio_slot)
        /\ IF fault = "add_prices"
           THEN /\ log' = "storage_error"
                /\ pc' = AfterException
                /\ extreme_alerts' = << >>
                /\ UNCHANGED << price_history, last_alerted, last_alerted_table >>
           ELSE /\ price_history' = AddPrices(price_history, now', ratio)
                /\ \E checked \in {CheckExtremes(price_history', last_alerted,
                                                 last_alerted_table, now', ratio, fault)} :
                      /\ checked.reached
                      /\ last_alerted' = checked.registry
                      /\ last_alerted_table' = checked.table
                      /\ extreme_alerts' = checked.alerts
                      /\ log' = IF checked.raised THEN "storage_error" ELSE "ok"
                      /\ pc' = IF checked.raised THEN AfterException ELSE "loop"
        /\ last_returned' = Returned(last_returned, extreme_alerts')
        \* every bark_push of the cycle meets the same push service
        /\ \E delivered \in outcomes :
              /\ bark_log' = BarkLog(crossings', extreme_alerts', delivered)
              /\ btc_slot' = SlotAfterPush(btc_slot, new_btc_slot, delivered)
              /\ eth_slot' = SlotAfterPush(eth_slot, new_eth_slot, delivered)
              /\ ratio_slot' = SlotAfterPush(ratio_slot, new_ratio_slot, delivered)

\* a store that keeps every executed statement, committed or not
DurableEachStatement(before, after, committed) == after

\* what the SQLite file holds of the statements a connection executed:
\* all of them once conn.commit() has returned, none of them before
Durable(before, after, committed) == IF committed THEN after ELSE before

\* where in add_prices and check_extremes the process may be stopped: after
\* the INSERT of the row, after the upsert of the low entry, after the upsert
\* of the high entry (each executed and not committed), and after
\* check_extremes has returned, before the alerts are pushed
KillPoints == {"insert", "upsert_low", "upsert_high", "returned"}

\* the body of "while True" up to the point where the process is stopped
Stops(btc, eth, point, outcomes) ==
    LET ratio == Ratio(btc, eth)
        inserted == Append(price_history, [timestamp |-> now', ratio |-> ratio])
        added == AddPrices(price_history, now', ratio)
        low_saved == CheckExtremes(added, last_alerted, last_alerted_table,
                                   now', ratio, "save_high").table
        whole == CheckExtremes(added, last_alerted, last_alerted_table,
                               now', ratio, "none")
        all_saved == whole.table
    IN  /\ pc' = "killed"
        /\ log' = "killed"
        /\ btc_price' = btc
        /\ eth_price' = eth
        /\ btc_slot' = Unbound
        /\ eth_slot' = Unbound
        /\ ratio_slot' = Unbound
        /\ last_alerted' = EmptyRegistry
        /\ crossings' = BtcCrossing(btc_slot, PriceSlot(btc, BTC_STEP))
                          \o EthCrossing(eth_slot, PriceSlot(eth, ETH_STEP))
                          \o RatioCrossing(ratio_slot, RatioSlot(ratio, RATIO_STEP))
        /\ extreme_alerts' = IF point = "returned" THEN whole.alerts ELSE << >>
        /\ \E delivered \in outcomes : bark_log' = BarkLog(crossings', << >>, delivered)
        /\ price_history' = IF point = "insert"
                            THEN Durable(price_history, inserted, FALSE)
                            ELSE added
        /\ last_alerted_table' =
              CASE point = "insert" -> last_alerted_table
                [] point = "upsert_low" -> Durable(last_alerted_table, low_saved, FALSE)
                [] point = "upsert_high" -> Durable(low_saved, all_saved, FALSE)
                [] point = "returned" -> all_saved
        /\ last_returned' = Returned(last_returned, extreme_alerts')

\* the process is stopped abruptly inside a cycle that fetched a usable quote
Halt(limit, outcomes) ==
    /\ pc = "loop"
    /\ \E dt \in Dts : now + dt <= limit /\ now' = now + dt
    /\ Len(AddPrices(price_history, now', None)) <= MaxSamples
    /\ UNCHANGED << BTC_STEP, ETH_STEP, RATIO_STEP >>
    /\ \E q \in Quotes, point \in KillPoints :
          q[2] # 0 /\ Stops(q[1], q[2], point, outcomes)

\* one pass of the body of "while True"; the clock has advanced by dt
Cycle(limit, outcomes) ==
    /\ pc = "loop"
    /\ \E dt \in Dts : now + dt <= limit /\ now' = now + dt
    /\ Len(AddPrices(price_history, now', None)) <= MaxSamples
    /\ UNCHANGED << BTC_STEP, ETH_STEP, RATIO_STEP >>
    /\ \/ FetchFails
       \/ \E q \in Quotes :
            IF q[2] = 0 THEN DivisionFails(q[1], q[2])
            ELSE \E fault \in {"none"} \cup StorageFaults :
                    Tracks(q[1], q[2], fault, outcomes)

Start ==
    \E q \in Quotes, fault \in {"none", "fetch", "query"} :
        Startup(q[1], q[2], fault)

\* the process is stopped from outside, or has ended, and is launched again
Relaunch(limit) ==
    /\ pc \in {"loop", "exited", "killed"}
    /\ \E dt \in Dts : now + dt <= limit /\ now' = now + dt
    /\ pc' = "start"
    /\ btc_price' = Unbound
    /\ eth_price' = Unbound
    /\ btc_slot' = Unbound
    /\ eth_slot' = Unbound
    /\ ratio_slot' = Unbound
    /\ last_alerted' = EmptyRegistry
    /\ crossings' = << >>
    /\ extreme_alerts' = << >>
    /\ bark_log' = "none"
    /\ UNCHANGED last_returned
    /\ log' = "start"
    /\ UNCHANGED << BTC_STEP, ETH_STEP, RATIO_STEP, price_history, last_alerted_table >>

Poll == Cycle(MaxTime, PushAlways)

Restart == Relaunch(MaxTime)

Next ==
    \/ Start
    \/ Poll
    \/ Restart

Spec == Init /\ [][Next]_vars

\* the same process started with a step below zero
SpecNegative == InitNegative /\ [][Next]_vars

\* the same process with a push service that may fail
PollPush == Cycle(MaxTime, PushOutcomes)

NextPush ==
    \/ Start
    \/ PollPush
    \/ Restart

SpecPush == Init /\ [][NextPush]_vars

\* the same process, which may also be stopped inside a cycle
Kill == Halt(MaxTime, PushAlways)

NextCrash ==
    \/ Start
    \/ Poll
    \/ Kill
    \/ Restart

SpecCrash == Init /\ [][NextCrash]_vars

\* the same process watched for a longer time
PollLong == Cycle(MaxTimeLong, PushAlways)

RestartLong == Relaunch(MaxTimeLong)

NextLong ==
    \/ Start
    \/ PollLong
    \/ RestartLong

SpecLong == Init /\ [][NextLong]_vars

----------------------------------------------------------------------------
(* What the properties read *)

\* the ratio of the quote last fetched
CurrentRatio == Ratio(btc_price, eth_price)

\* the last step was a cycle whose check_extremes returned its alerts
Checked == pc = "loop" /\ log = "ok"

\* the last step was a cycle that came to the slot comparisons
Compared == pc = "loop" /\ log \in {"ok", "storage_error"}

\* hours between now and the oldest row
DataSpan == now - OldestTimestamp(price_history)

AlertsOfKind(alerts, kind) == {i \in 1..Len(alerts) : alerts[i].kind = kind}

CrossingsOf(pushed, series) == {i \in 1..Len(pushed) : pushed[i].series = series}

RLt(a, b) == a[1] * b[2] < b[1] * a[2]

----------------------------------------------------------------------------
(* C1. Longest-period preference: in a cycle whose check_extremes returns,  *)
(* if the current ratio is <= the minimum of the window of an eligible      *)
(* period P, no low alert of a period shorter than P is emitted; the same   *)
(* for >= the maximum and high alerts.  (A value that is at once a 24h, 72h *)
(* and 144h low is the case P = 144h: no 72h or 24h low alert.)             *)
C1_LongestPeriodPreference ==
    Checked =>
      \A i \in 1..Len(Periods) :
        LET P == Periods[i]
            window == GetPeriodRatios(price_history, now, P.hours)
        IN  (DataSpan >= P.hours /\ window # {}) =>
              /\ RLe(CurrentRatio, RMin(window)) =>
                   \A j \in AlertsOfKind(extreme_alerts, "low") :
                       extreme_alerts[j].hours >= P.hours
              /\ RLe(RMax(window), CurrentRatio) =>
                   \A j \in AlertsOfKind(extreme_alerts, "high") :
                       extreme_alerts[j].hours >= P.hours

(* C2. Repeated-extreme suppression: when a cycle has alerted the value v   *)
(* as a low (high), the cycle that follows it and observes the identical    *)
(* ratio v emits no low (high) alert of any period.                         *)
C2_RepeatedExtremeSuppressed ==
    [][ \A kind \in {"low", "high"} :
          ( /\ pc = "loop"
            /\ Checked'
            /\ \E j \in AlertsOfKind(extreme_alerts, kind) :
                   extreme_alerts[j].value = CurrentRatio' )
          => AlertsOfKind(extreme_alerts', kind) = {} ]_vars

(* C3. Slot state survives failed cycles: a cycle whose fetch fails leaves   *)
(* the three slots, the history and both registries as they were; so does   *)
(* a cycle that fails on the quote itself.  The next cycle that comes to    *)
(* the comparisons compares against those slots: each series whose kept     *)
(* slot differs from the newly observed slot pushes a crossing in that      *)
(* cycle and records the new slot.                                          *)
C3_SlotsSurviveFailedCycles ==
    [][ (pc = "loop" /\ pc' = "loop") =>
          /\ log' \in {"fetch_error", "zero_division"} =>
               /\ UNCHANGED << btc_slot, eth_slot, ratio_slot >>
               /\ UNCHANGED << price_history, last_alerted, last_alerted_table >>
               /\ crossings' = <<>>
          /\ Compared' =>
               /\ PriceSlot(btc_price', BTC_STEP) # btc_slot
                    => CrossingsOf(crossings', "BTC") # {}
               /\ PriceSlot(eth_price', ETH_STEP) # eth_slot
                    => CrossingsOf(crossings', "ETH") # {}
               /\ RatioSlot(CurrentRatio', RATIO_STEP) # ratio_slot
                    => CrossingsOf(crossings', "BTC/ETH") # {}
               /\ btc_slot' = PriceSlot(btc_price', BTC_STEP)
               /\ eth_slot' = PriceSlot(eth_price', ETH_STEP)
               /\ ratio_slot' = RatioSlot(CurrentRatio', RATIO_STEP) ]_vars

\* a fetch has failed in the loop, with rows in the history, and the slots
\* are those of the last usable quote
C3_Witness ==
    /\ pc = "loop"
    /\ log = "fetch_error"
    /\ price_history # << >>
    /\ btc_slot = PriceSlot(btc_price, BTC_STEP)
    /\ btc_slot = 0 - 1

(* C4. Crossing direction and threshold: a cycle that moves a series from   *)
(* old_slot to new_slot pushes one crossing for it, "up" with threshold     *)
(* new_slot * step when new_slot > old_slot, "down" with threshold          *)
(* (new_slot + 1) * step when new_slot < old_slot; with step 100, 10 -> 12  *)
(* gives up/1200 and 12 -> 10 gives down/1100.                              *)
C4_Expected(pushed, series, old_slot, new_slot, threshold_up, threshold_down) ==
    IF new_slot = old_slot
    THEN CrossingsOf(pushed, series) = {}
    ELSE /\ Cardinality(CrossingsOf(pushed, series)) = 1
         /\ \A i \in CrossingsOf(pushed, series) :
               IF new_slot > old_slot
               THEN pushed[i].direction = "up" /\ pushed[i].threshold = threshold_up
               ELSE pushed[i].direction = "down" /\ pushed[i].threshold = threshold_down

C4_DirectionAndThreshold ==
    /\ Direction(10, 12) = "up" /\ FinalThreshold(10, 12, 100) = 1200
    /\ Direction(12, 10) = "down" /\ FinalThreshold(12, 10, 100) = 1100
    /\ [][ (pc = "loop" /\ Compared') =>
             /\ C4_Expected(crossings', "BTC", btc_slot, btc_slot',
                            btc_slot' * BTC_STEP, (btc_slot' + 1) * BTC_STEP)
             /\ C4_Expected(crossings', "ETH", eth_slot, eth_slot',
                            eth_slot' * ETH_STEP, (eth_slot' + 1) * ETH_STEP)
             /\ C4_Expected(crossings', "BTC/ETH", ratio_slot, ratio_slot',
                            RNorm(ratio_slot' * RATIO_STEP[1], RATIO_STEP[2]),
                            RNorm((ratio_slot' + 1) * RATIO_STEP[1], RATIO_STEP[2])) ]_vars

\* one cycle pushed an upward and a downward crossing
C4_Witness ==
    /\ Compared
    /\ \E i, j \in 1..Len(crossings) :
          crossings[i].direction = "up" /\ crossings[j].direction = "down"

(* C5. Slot bounds: for step > 0 the slot computed for a value satisfies    *)
(* slot * step <= value < (slot + 1) * step, for the BTC slot, the ETH slot *)
(* and the ratio slot alike.                                                *)
C5_SlotBounds ==
    (pc = "loop" /\ log \in {"ready", "ok", "storage_error"}) =>
      /\ BTC_STEP > 0 =>
           btc_slot * BTC_STEP <= btc_price /\ btc_price < (btc_slot + 1) * BTC_STEP
      /\ ETH_STEP > 0 =>
           eth_slot * ETH_STEP <= eth_price /\ eth_price < (eth_slot + 1) * ETH_STEP
      /\ RATIO_STEP[1] > 0 =>
           /\ RLe(RNorm(ratio_slot * RATIO_STEP[1], RATIO_STEP[2]), CurrentRatio)
           /\ RLt(CurrentRatio, RNorm((ratio_slot + 1) * RATIO_STEP[1], RATIO_STEP[2]))

C7_MonotoneRunUp ==
    [][ ( /\ pc = "loop"
          /\ Checked'
          /\ price_history' # << >>
          /\ now' - OldestTimestamp(price_history') >= 144
          /\ \A i \in 1..Len(price_history) :
                RLt(price_history[i].ratio, CurrentRatio')
          /\ \A k \in {"24h_high", "72h_high", "144h_high"} :
                last_alerted[k] # None => RLt(last_alerted[k], CurrentRatio') )
        => /\ Cardinality(AlertsOfKind(extreme_alerts', "high")) = 1
           /\ \A j \in AlertsOfKind(extreme_alerts', "high") :
                 /\ extreme_alerts'[j].hours = 144
                 /\ extreme_alerts'[j].value = CurrentRatio' ]_vars

\* a 144h high was alerted for a ratio above every other stored ratio
C7_Witness ==
    /\ Checked
    /\ Len(price_history) >= 2
    /\ DataSpan >= 144
    /\ \A i \in 1..(Len(price_history) - 1) : RLt(price_history[i].ratio, CurrentRatio)
    /\ \E j \in AlertsOfKind(extreme_alerts, "high") : extreme_alerts[j].hours = 144

(* C8. Eligibility gate: every alert a cycle emits is of a period no longer *)
(* than the span between the oldest stored sample and now; with less than   *)
(* 24 hours of history no alert is emitted, whatever the value.             *)
C8_EligibilityGate ==
    pc = "loop" =>
      /\ \A j \in 1..Len(extreme_alerts) :
            price_history # << >> /\ DataSpan >= extreme_alerts[j].hours
      /\ (price_history # << >> /\ DataSpan < 24) => extreme_alerts = << >>

\* a cycle alerted while the 72h and 144h periods were not eligible
C8_Witness ==
    /\ Checked
    /\ price_history # << >>
    /\ DataSpan >= 24
    /\ DataSpan < 72
    /\ extreme_alerts # << >>

C10_RegistryMatchesStore ==
    pc = "loop" => \A k \in Keys : last_alerted[k] = last_alerted_table[k]

(* C11. Step validation: the process is never in the polling loop with a    *)
(* BTC, ETH or ratio step that is zero or negative.                         *)
C11_NoLoopWithBadStep ==
    pc = "loop" => BTC_STEP > 0 /\ ETH_STEP > 0 /\ RATIO_STEP[1] > 0

(* C12. Multi-slot collapse: a cycle in which a series has moved by more    *)
(* than one slot pushes exactly one crossing for that series, with the      *)
(* threshold of the slot reached (new slot * step upwards, (new slot + 1) * *)
(* step downwards), and the kept slot becomes the observed slot at once.    *)
C12_Collapsed(pushed, series, old_slot, new_slot, observed, up, down) ==
    Abs(observed - old_slot) > 1 =>
      /\ new_slot = observed
      /\ Cardinality(CrossingsOf(pushed, series)) = 1
      /\ \A i \in CrossingsOf(pushed, series) :
            pushed[i].threshold = IF observed > old_slot THEN up ELSE down

C12_MultiSlotCollapse ==
    [][ (pc = "loop" /\ Compared') =>
          /\ C12_Collapsed(crossings', "BTC", btc_slot, btc_slot',
                           PriceSlot(btc_price', BTC_STEP),
                           btc_slot' * BTC_STEP, (btc_slot' + 1) * BTC_STEP)
          /\ C12_Collapsed(crossings', "ETH", eth_slot, eth_slot',
                           PriceSlot(eth_price', ETH_STEP),
                           eth_slot' * ETH_STEP, (eth_slot' + 1) * ETH_STEP)
          /\ C12_Collapsed(crossings', "BTC/ETH", ratio_slot, ratio_slot',
                           RatioSlot(CurrentRatio', RATIO_STEP),
                           RNorm(ratio_slot' * RATIO_STEP[1], RATIO_STEP[2]),
                           RNorm((ratio_slot' + 1) * RATIO_STEP[1], RATIO_STEP[2])) ]_vars

\* BTC has gone from slot -1 to slot 1 and one crossing, of threshold 4, is pushed
C12_Witness ==
    /\ Compared
    /\ BTC_STEP = 4
    /\ btc_slot = 1
    /\ \E i \in CrossingsOf(crossings, "BTC") :
          crossings[i].direction = "up" /\ crossings[i].threshold = 4

(* C13. No crossing without a slot change: a cycle that observes, for a     *)
(* series, the slot it kept pushes no crossing for that series and keeps    *)
(* the slot.                                                                *)
C13_SameSlotNoEvent ==
    [][ (pc = "loop" /\ Compared') =>
          /\ PriceSlot(btc_price', BTC_STEP) = btc_slot =>
               CrossingsOf(crossings', "BTC") = {} /\ btc_slot' = btc_slot
          /\ PriceSlot(eth_price', ETH_STEP) = eth_slot =>
               CrossingsOf(crossings', "ETH") = {} /\ eth_slot' = eth_slot
          /\ RatioSlot(CurrentRatio', RATIO_STEP) = ratio_slot =>
               CrossingsOf(crossings', "BTC/ETH") = {} /\ ratio_slot' = ratio_slot ]_vars

\* a cycle observed a quote of another value in the slots kept and pushed nothing
C13_Witness ==
    /\ Checked
    /\ crossings = << >>
    /\ Len(price_history) = 2
    /\ price_history[1].ratio = <<5, 2>>
    /\ price_history[2].ratio = <<3, 1>>
    /\ price_history[1].timestamp = price_history[2].timestamp

(* C14. Retention: every stored row is at most 145 hours older than the     *)
(* row ingested last, and after a cycle that ingested, the row of that      *)
(* cycle is stored.                                                         *)
C14_Retention ==
    price_history # << >> =>
      LET newest == price_history[Len(price_history)]
      IN  /\ \A i \in 1..Len(price_history) :
                /\ price_history[i].timestamp <= newest.timestamp
                /\ newest.timestamp - price_history[i].timestamp <= 145
          /\ Checked => newest.timestamp = now /\ newest.ratio = CurrentRatio

\* a cycle ingested at hour 192 and the table keeps a row 144 hours older
C14_Witness ==
    /\ Checked
    /\ now = 192
    /\ Len(price_history) = 2
    /\ price_history[1].timestamp = 48
    /\ price_history[2].timestamp = 192

(* C15. A failed push is not retried: a cycle whose pushes fail logs the     *)
(* failure and still ends in the loop with the observed slots recorded; and *)
(* the cycle after it, observing the same slot of a series whose crossing   *)
(* push failed, pushes no crossing for that series.                         *)
C15_FailedPushNotRetried ==
    [][ /\ (pc = "loop" /\ Compared' /\ bark_log' = "error") =>
             /\ btc_slot' = PriceSlot(btc_price', BTC_STEP)
             /\ eth_slot' = PriceSlot(eth_price', ETH_STEP)
             /\ ratio_slot' = RatioSlot(CurrentRatio', RATIO_STEP)
        /\ (pc = "loop" /\ Compared /\ bark_log = "error" /\ Compared') =>
             /\ ( /\ CrossingsOf(crossings, "BTC") # {}
                  /\ PriceSlot(btc_price', BTC_STEP) = PriceSlot(btc_price, BTC_STEP) )
                  => CrossingsOf(crossings', "BTC") = {}
             /\ ( /\ CrossingsOf(crossings, "ETH") # {}
                  /\ PriceSlot(eth_price', ETH_STEP) = PriceSlot(eth_price, ETH_STEP) )
                  => CrossingsOf(crossings', "ETH") = {}
             /\ ( /\ CrossingsOf(crossings, "BTC/ETH") # {}
                  /\ RatioSlot(CurrentRatio', RATIO_STEP) = RatioSlot(CurrentRatio, RATIO_STEP) )
                  => CrossingsOf(crossings', "BTC/ETH") = {} ]_vars

\* the push of a BTC crossing failed and the observed slot is recorded
C15_Witness ==
    /\ Compared
    /\ bark_log = "error"
    /\ CrossingsOf(crossings, "BTC") # {}
    /\ btc_slot = PriceSlot(btc_price, BTC_STEP)

(* C16. Registry invariant: in the loop an entry of the in-memory registry  *)
(* changes only in a cycle that emits an alert of that period and kind, to  *)
(* the value that alert carries, and the persisted entry then holds the     *)
(* same value; so an entry is None until the first alert of its key and     *)
(* holds the value of the last alert of its key afterwards.                 *)
C16_RegistryFollowsAlerts ==
    [][ (pc = "loop" /\ pc' = "loop") =>
          \A k \in Keys :
            last_alerted'[k] # last_alerted[k] =>
              /\ \E j \in 1..Len(extreme_alerts') :
                    /\ extreme_alerts'[j].key = k
                    /\ extreme_alerts'[j].value = last_alerted'[k]
              /\ last_alerted_table'[k] = last_alerted'[k] ]_vars

(* C17. De-duplication guard: an alert of a key is emitted only when the    *)
(* current ratio differs from the registry entry of that key as it stood    *)
(* when the check began; and an alert never carries the value of the alert  *)
(* emitted last for the same key.                                           *)
C17_DedupGuard ==
    [][ (pc = "loop" /\ Checked') =>
          \A j \in 1..Len(extreme_alerts') :
            /\ extreme_alerts'[j].value = CurrentRatio'
            /\ extreme_alerts'[j].value # last_alerted[extreme_alerts'[j].key]
            /\ extreme_alerts'[j].value # last_returned[extreme_alerts'[j].key] ]_vars

(* C18. Alert soundness: the value of a low alert of period P is <= the     *)
(* ratio of every stored row of the trailing P hours, the row just ingested *)
(* included, and the oldest stored row is at least P hours old; the value   *)
(* of a high alert is >= the ratio of every row of its window.              *)
C18_AlertSoundness ==
    Checked =>
      \A j \in 1..Len(extreme_alerts) :
        LET a == extreme_alerts[j]
            inWindow == {i \in 1..Len(price_history) :
                            price_history[i].timestamp >= now - a.hours}
        IN  /\ Len(price_history) \in inWindow
            /\ price_history[Len(price_history)].ratio = a.value
            /\ \E i \in 1..Len(price_history) : now - price_history[i].timestamp >= a.hours
            /\ a.kind = "low" => \A i \in inWindow : RLe(a.value, price_history[i].ratio)
            /\ a.kind = "high" => \A i \in inWindow : RLe(price_history[i].ratio, a.value)

\* a 144h low alert for a ratio strictly below the other row of its window
C18_Witness ==
    /\ Checked
    /\ Len(price_history) = 2
    /\ RLt(CurrentRatio, price_history[1].ratio)
    /\ \E j \in AlertsOfKind(extreme_alerts, "low") : extreme_alerts[j].hours = 144

(* C19. One alert per track, and independent tracks: a check returns at     *)
(* most one low and at most one high alert; it returns a low alert exactly  *)
(* when some eligible period has the current ratio as the low of its window *)
(* and its low entry differs from the ratio, and a high alert exactly when  *)
(* the same is true with high: neither depends on the other track.          *)
C19_Due(history, registry, t, current_ratio, kind) ==
    \E n \in 1..Len(Periods) :
      LET P == Periods[n]
          inWindow == {i \in 1..Len(history) : history[i].timestamp >= t - P.hours}
          key == IF kind = "low" THEN P.low_key ELSE P.high_key
      IN  /\ \E i \in 1..Len(history) : t - history[i].timestamp >= P.hours
          /\ inWindow # {}
          /\ \A i \in inWindow :
                IF kind = "low" THEN RLe(current_ratio, history[i].ratio)
                ELSE RLe(history[i].ratio, current_ratio)
          /\ registry[key] # current_ratio

C19_IndependentTracks ==
    [][ (pc = "loop" /\ Checked') =>
          /\ Len(extreme_alerts') <= 2
          /\ \A kind \in {"low", "high"} :
                /\ Cardinality(AlertsOfKind(extreme_alerts', kind)) <= 1
                /\ AlertsOfKind(extreme_alerts', kind) # {}
                     <=> C19_Due(price_history', last_alerted, now', CurrentRatio', kind) ]_vars

\* one check returned a low alert and a high alert, of different periods
C19_Witness ==
    /\ Checked
    /\ \E i \in AlertsOfKind(extreme_alerts, "low") :
       \E j \in AlertsOfKind(extreme_alerts, "high") :
          extreme_alerts[i].hours # extreme_alerts[j].hours

(* C20. Crash safety of the store: when the process is stopped inside a     *)
(* cycle, the history is either as it was or holds the new row with the old *)
(* rows evicted, never the new row without the eviction; every registry     *)
(* entry of the store is either as it was or the ratio of the cycle, and no *)
(* entry is written while the history is not; the relaunch leaves the store *)
(* alone and the tracker it starts loads the registry the store holds.      *)
C20_CrashSafeStore ==
    [][ /\ log' = "killed" =>
             /\ \/ price_history' = price_history
                \/ price_history' = AddPrices(price_history, now', CurrentRatio')
             /\ price_history' = price_history =>
                   last_alerted_table' = last_alerted_table
             /\ \A k \in Keys :
                   \/ last_alerted_table'[k] = last_alerted_table[k]
                   \/ last_alerted_table'[k] = CurrentRatio'
        /\ pc = "killed" => UNCHANGED << price_history, last_alerted_table >>
        /\ (pc = "start" /\ log' = "ready") =>
             \A k \in Keys : last_alerted'[k] = last_alerted_table[k] ]_vars

\* the process was stopped after the INSERT of a cycle whose DELETE was due:
\* the store holds the rows it held
C20_Witness ==
    /\ pc = "killed"
    /\ now = 192
    /\ Len(price_history) = 2
    /\ price_history[1].timestamp = 0

====
